---- MODULE Spec2Model ----
(***************************************************************************)
(* Model of euweb/DataWarehouse:                                           *)
(*   - redshift_util.py: the command-line tool that creates, deletes or    *)
(*     queries a Redshift cluster and its IAM role;                        *)
(*   - sql_queries.py: the ordered lists of SQL statements.                *)
(* The IAM and Redshift services are external: every response of an API    *)
(* call is an input of the step that makes the call.  The IAM role and its *)
(* policy attachment persist between invocations of the tool.              *)
(***************************************************************************)
EXTENDS Integers, Sequences, FiniteSets, TLC

VARIABLES
    role,       \* IAM: "absent" or "exists" (persists between invocations)
    attached,   \* IAM: AmazonS3ReadOnlyAccess is attached to the role
    pc,         \* position of the running invocation in main(); "idle" = no process
    opts,       \* the flags given on the command line
    dwhRole,    \* main's local dwhRole
    status,     \* main's local status (the flag's value, then a status string)
    i,          \* main's local loop counter
    out,        \* the lines printed by the latest step
    calls,      \* number of calls of each external API in this invocation
    lastCall,   \* the external call made by the latest step and its response
    ret,        \* what the helper function called by the latest step returned
    exit,       \* how the invocation ended: "running", "ok", "usage", "error"
    crashAt,    \* where an uncaught exception was raised
    lookup,     \* history: outcome of get_iam_role in this invocation
    created,    \* history: create_role succeeded in this invocation
    observed,   \* history: status seen by the check before create/delete
    polls,      \* history: describe calls made by the polling loop
    hit,        \* history: a poll of the loop returned the target status
    sqlList,    \* the statement list the runner is executing, or "none"
    sqlPos,     \* number of statements of sqlList executed so far
    sqlFailed,  \* the latest statement of the run raised an error
    tables,     \* tables that exist in the warehouse
    loaded      \* tables that have been loaded

cliVars == <<role, attached, pc, opts, dwhRole, status, i, out, calls, lastCall,
             ret, exit, crashAt, lookup, created, observed, polls, hit>>
sqlVars == <<sqlList, sqlPos, sqlFailed, tables, loaded>>
vars == <<role, attached, pc, opts, dwhRole, status, i, out, calls, lastCall,
          ret, exit, crashAt, lookup, created, observed, polls, hit,
          sqlList, sqlPos, sqlFailed, tables, loaded>>

Last(s) == s[Len(s)]

(***************************************************************************)
(* redshift_util.py                                                        *)
(***************************************************************************)

\* Python's None, and the marker of a local that has not been assigned.
None == "None"
Unset == "unset"
NoReturn == "no return"

\* The line printed by `print(e)` in an except block.
Exc == "exception"

Flags == {"create", "delete", "status"}

Apis == {"get_role", "create_role", "attach_role_policy",
         "describe_clusters", "create_cluster", "delete_cluster"}

\* Cluster statuses the provider reports for an existing cluster.
ProviderStatuses == {"creating", "available", "deleting", "modifying"}

\* Responses of describe_clusters: a status, cluster-not-found, or another error.
DescribeResponses == ProviderStatuses \cup {"ClusterNotFoundFault", "ClientError"}

\* Responses that are exceptions raised by the client.
Failures == {"ClientError", "ClusterNotFoundFault", "NoSuchEntity",
             "EntityAlreadyExists"}

GetRoleResponses(r) ==
    IF r = "exists" THEN {"ok", "ClientError"} ELSE {"NoSuchEntity", "ClientError"}

CreateRoleResponses(r) ==
    IF r = "exists" THEN {"EntityAlreadyExists", "ClientError"} ELSE {"ok", "ClientError"}

CallResponses == {"ok", "ClientError"}

\* The number of polls of the two loops (i = 10).
CreateAttempts == 10
DeleteAttempts == 10

\* mutually_exclusive=[...] of the three options.
mutually_exclusive(name) ==
    CASE name = "create" -> {"delete", "status"}
      [] name = "delete" -> {"create", "status"}
      [] name = "status" -> {"create", "delete"}

handle_parse_result_subset(name, o) ==
    /\ mutually_exclusive(name) \subseteq o
    /\ name \in o

\* MutuallyExclusiveOption.handle_parse_result: TRUE when it raises UsageError.
handle_parse_result(name, o) ==
    /\ mutually_exclusive(name) \cap o # {}
    /\ name \in o

\* click hands the parse result to every option before main is called.
UsageError(o) == \E name \in Flags : handle_parse_result(name, o)

get_cluster_status_not_available(resp) ==
    IF resp = "available"
    THEN [ret |-> resp, out |-> <<"Get Redshift cluster status">>, raised |-> FALSE]
    ELSE IF resp = "ClientError"
    THEN [ret |-> NoReturn, out |-> <<"Get Redshift cluster status">>, raised |-> TRUE]
    ELSE [ret |-> "unknown", out |-> <<"Get Redshift cluster status">>, raised |-> FALSE]

get_cluster_status_catch_all(resp) ==
    IF resp \in ProviderStatuses
    THEN [ret |-> resp, out |-> <<"Get Redshift cluster status">>, raised |-> FALSE]
    ELSE IF resp = "ClusterNotFoundFault"
    THEN [ret |-> "unknown", out |-> <<"Get Redshift cluster status">>, raised |-> FALSE]
    ELSE [ret |-> None, out |-> <<"Get Redshift cluster status", Exc>>, raised |-> FALSE]

\* get_cluster_status: only ClusterNotFoundFault is caught.
get_cluster_status(resp) ==
    IF resp \in ProviderStatuses
    THEN [ret |-> resp, out |-> <<"Get Redshift cluster status">>, raised |-> FALSE]
    ELSE IF resp = "ClusterNotFoundFault"
    THEN [ret |-> "unknown", out |-> <<"Get Redshift cluster status">>, raised |-> FALSE]
    ELSE [ret |-> NoReturn, out |-> <<"Get Redshift cluster status">>, raised |-> TRUE]

\* get_iam_role: every exception is printed and None is returned.
get_iam_role(resp) ==
    IF resp = "ok"
    THEN [ret |-> "Role", out |-> <<"Get the IAM Role">>]
    ELSE [ret |-> None, out |-> <<"Get the IAM Role", Exc>>]

\* create_redshift_cluster: every exception is printed and None is returned.
create_redshift_cluster(resp) ==
    IF resp = "ok"
    THEN [ret |-> "response", out |-> <<"Create Redshift cluster">>]
    ELSE [ret |-> None, out |-> <<"Create Redshift cluster", Exc>>]

\* delete_redshift_cluster: returns None in both cases.
delete_redshift_cluster(resp) ==
    IF resp = "ok"
    THEN [ret |-> None, out |-> <<"Delete Redshift cluster">>]
    ELSE [ret |-> None, out |-> <<"Delete Redshift cluster", Exc>>]

NeedsRoleAlways(r) == TRUE

\* main: if(not dwhRole)
NeedsRole(r) == r = None

ShouldCreateUnlessAvailable(s) == s # "available"

\* main: if(status == 'unknown') of the create flow
ShouldCreate(s) == s = "unknown"

ShouldDeleteUnlessUnknown(s) == s # "unknown"

\* main: if(status == 'available') of the delete flow
ShouldDelete(s) == s = "available"

LoopContinuesAtZero(n) == n >= 0

\* main: while i > 0
LoopContinues(n) == n > 0

PollStopsNever(s, target) == FALSE

\* main: if(status == target): break
PollStops(s, target) == s = target

\* main: the blocks if(status), if(create), if(delete) run in this order.
AfterCreate(o) == IF "delete" \in o THEN "delete_status" ELSE "idle"
AfterStatus(o) == IF "create" \in o THEN "get_role" ELSE AfterCreate(o)
Start(o) == IF "status" \in o THEN "status" ELSE AfterStatus(o)

ExitOf(p) == IF p = "idle" THEN "ok" ELSE "running"

NoCalls == [a \in Apis |-> 0]
Called(a) == [calls EXCEPT ![a] = @ + 1]

NoCall == [api |-> "none", resp |-> "none"]

\* An uncaught exception ends the process.
Crash(where) ==
    /\ pc' = "idle"
    /\ exit' = "error"
    /\ crashAt' = where

\* Control moves on; reaching the end of main ends the process normally.
Goto(p) ==
    /\ pc' = p
    /\ exit' = ExitOf(p)
    /\ crashAt' = crashAt

\* A new process: click parses the flags, then main runs up to its first call.
Invoke(o) ==
    /\ pc = "idle"
    /\ opts' = o
    /\ dwhRole' = Unset
    /\ status' = IF "status" \in o THEN "True" ELSE "False"
    /\ i' = 0
    /\ calls' = NoCalls
    /\ lastCall' = NoCall
    /\ ret' = NoReturn
    /\ lookup' = "pending"
    /\ created' = FALSE
    /\ observed' = "none"
    /\ polls' = 0
    /\ hit' = FALSE
    /\ crashAt' = "none"
    /\ IF UsageError(o)
       THEN /\ pc' = "idle"
            /\ exit' = "usage"
            /\ out' = <<"Illegal usage">>
       ELSE /\ pc' = Start(o)
            /\ exit' = ExitOf(Start(o))
            /\ out' = <<>>
    /\ UNCHANGED <<role, attached>>
    /\ UNCHANGED sqlVars

\* main: if(status): print(get_cluster_status(...))
StatusQuery ==
    /\ pc = "status"
    /\ \E resp \in DescribeResponses :
         LET r == get_cluster_status(resp) IN
         /\ lastCall' = [api |-> "describe_clusters", resp |-> resp]
         /\ calls' = Called("describe_clusters")
         /\ ret' = r.ret
         /\ IF r.raised
            THEN /\ out' = r.out
                 /\ Crash("describe_clusters")
            ELSE /\ out' = Append(r.out, r.ret)
                 /\ Goto(AfterStatus(opts))
    /\ UNCHANGED <<role, attached, opts, dwhRole, status, i, lookup, created,
                   observed, polls, hit>>
    /\ UNCHANGED sqlVars

\* main: dwhRole = get_iam_role(...); if(not dwhRole): ...
GetRole ==
    /\ pc = "get_role"
    /\ \E resp \in GetRoleResponses(role) :
         LET r == get_iam_role(resp) IN
         /\ lastCall' = [api |-> "get_role", resp |-> resp]
         /\ calls' = Called("get_role")
         /\ ret' = r.ret
         /\ out' = r.out
         /\ dwhRole' = r.ret
         /\ lookup' = IF r.ret = None THEN "absent" ELSE "found"
         /\ Goto(IF NeedsRole(r.ret) THEN "create_role" ELSE "create_status")
    /\ UNCHANGED <<role, attached, opts, status, i, created, observed, polls, hit>>
    /\ UNCHANGED sqlVars

\* create_iam_role up to and including iam_client.create_role; an exception
\* is printed and makes the function return None.
CreateRole ==
    /\ pc = "create_role"
    /\ \E resp \in CreateRoleResponses(role) :
         /\ lastCall' = [api |-> "create_role", resp |-> resp]
         /\ calls' = Called("create_role")
         /\ IF resp = "ok"
            THEN /\ role' = "exists"
                 /\ created' = TRUE
                 /\ out' = <<"Creating a new IAM Role">>
                 /\ ret' = NoReturn
                 /\ dwhRole' = dwhRole
                 /\ Goto("attach_policy")
            ELSE /\ role' = role
                 /\ created' = created
                 /\ out' = <<"Creating a new IAM Role", Exc>>
                 /\ ret' = None
                 /\ dwhRole' = None
                 /\ Goto("create_status")
    /\ UNCHANGED <<attached, opts, status, i, lookup, observed, polls, hit>>
    /\ UNCHANGED sqlVars

\* create_iam_role from print("Attaching Policy") on: attach_role_policy, then
\* return dwhRole['Role']; an exception is printed and None is returned.
AttachPolicy ==
    /\ pc = "attach_policy"
    /\ \E resp \in CallResponses :
         /\ lastCall' = [api |-> "attach_role_policy", resp |-> resp]
         /\ calls' = Called("attach_role_policy")
         /\ IF resp = "ok"
            THEN /\ attached' = TRUE
                 /\ out' = <<"Attaching Policy">>
                 /\ ret' = "Role"
                 /\ dwhRole' = "Role"
            ELSE /\ attached' = attached
                 /\ out' = <<"Attaching Policy", Exc>>
                 /\ ret' = None
                 /\ dwhRole' = None
         /\ Goto("create_status")
    /\ UNCHANGED <<role, opts, status, i, lookup, created, observed, polls, hit>>
    /\ UNCHANGED sqlVars

\* main, create flow: status = get_cluster_status(...); if(status == 'unknown')
\* evaluates dwhRole['Arn'], which raises TypeError when dwhRole is None.
CreateStatus ==
    /\ pc = "create_status"
    /\ \E resp \in DescribeResponses :
         LET r == get_cluster_status(resp) IN
         /\ lastCall' = [api |-> "describe_clusters", resp |-> resp]
         /\ calls' = Called("describe_clusters")
         /\ ret' = r.ret
         /\ out' = r.out
         /\ IF r.raised
            THEN /\ status' = status
                 /\ observed' = observed
                 /\ Crash("describe_clusters")
            ELSE /\ status' = r.ret
                 /\ observed' = r.ret
                 /\ IF ShouldCreate(r.ret)
                    THEN IF dwhRole = None
                         THEN Crash("dwhRole['Arn']")
                         ELSE Goto("create_cluster")
                    ELSE Goto(AfterCreate(opts))
    /\ UNCHANGED <<role, attached, opts, dwhRole, i, lookup, created, polls, hit>>
    /\ UNCHANGED sqlVars

\* main, create flow: create_redshift_cluster(...); time.sleep(10); i = 10
CreateCluster ==
    /\ pc = "create_cluster"
    /\ \E resp \in CallResponses :
         LET r == create_redshift_cluster(resp) IN
         /\ lastCall' = [api |-> "create_cluster", resp |-> resp]
         /\ calls' = Called("create_cluster")
         /\ ret' = r.ret
         /\ out' = r.out
    /\ i' = CreateAttempts
    /\ Goto(IF LoopContinues(CreateAttempts) THEN "create_poll" ELSE AfterCreate(opts))
    /\ UNCHANGED <<role, attached, opts, dwhRole, status, lookup, created,
                   observed, polls, hit>>
    /\ UNCHANGED sqlVars

PollOutputSilent(r, stop) == r.out

\* What one iteration of a polling loop prints: print(status) comes after the
\* break, so the status that stops the loop is not printed.
PollOutput(r, stop) == IF stop THEN r.out ELSE Append(r.out, r.ret)

\* One iteration of a polling loop:
\*   status = get_cluster_status(...); if(status == target): break
\*   i -= 1; time.sleep(10); print(status)
PollStep(here, target, after) ==
    /\ pc = here
    /\ \E resp \in DescribeResponses :
         LET r == get_cluster_status(resp) IN
         /\ lastCall' = [api |-> "describe_clusters", resp |-> resp]
         /\ calls' = Called("describe_clusters")
         /\ ret' = r.ret
         /\ polls' = polls + 1
         /\ IF r.raised
            THEN /\ status' = status
                 /\ hit' = hit
                 /\ i' = i
                 /\ out' = r.out
                 /\ Crash("describe_clusters")
            ELSE /\ status' = r.ret
                 /\ hit' = (hit \/ r.ret = target)
                 /\ IF PollStops(r.ret, target)
                    THEN /\ i' = i
                         /\ out' = PollOutput(r, TRUE)
                         /\ Goto(after)
                    ELSE /\ i' = i - 1
                         /\ out' = PollOutput(r, FALSE)
                         /\ Goto(IF LoopContinues(i - 1) THEN here ELSE after)
    /\ UNCHANGED <<role, attached, opts, dwhRole, lookup, created, observed>>
    /\ UNCHANGED sqlVars

\* main, create flow: the loop waiting for 'available'
CreatePoll == PollStep("create_poll", "available", AfterCreate(opts))

\* main, delete flow: status = get_cluster_status(...); if(status == 'available')
DeleteStatus ==
    /\ pc = "delete_status"
    /\ \E resp \in DescribeResponses :
         LET r == get_cluster_status(resp) IN
         /\ lastCall' = [api |-> "describe_clusters", resp |-> resp]
         /\ calls' = Called("describe_clusters")
         /\ ret' = r.ret
         /\ out' = r.out
         /\ IF r.raised
            THEN /\ status' = status
                 /\ observed' = observed
                 /\ Crash("describe_clusters")
            ELSE /\ status' = r.ret
                 /\ observed' = r.ret
                 /\ Goto(IF ShouldDelete(r.ret) THEN "delete_cluster" ELSE "idle")
    /\ UNCHANGED <<role, attached, opts, dwhRole, i, lookup, created, polls, hit>>
    /\ UNCHANGED sqlVars

\* main, delete flow: delete_redshift_cluster(...); i = 10
DeleteCluster ==
    /\ pc = "delete_cluster"
    /\ \E resp \in CallResponses :
         LET r == delete_redshift_cluster(resp) IN
         /\ lastCall' = [api |-> "delete_cluster", resp |-> resp]
         /\ calls' = Called("delete_cluster")
         /\ ret' = r.ret
         /\ out' = r.out
    /\ i' = DeleteAttempts
    /\ Goto(IF LoopContinues(DeleteAttempts) THEN "delete_poll" ELSE "idle")
    /\ UNCHANGED <<role, attached, opts, dwhRole, status, lookup, created,
                   observed, polls, hit>>
    /\ UNCHANGED sqlVars

\* main, delete flow: the loop waiting for 'unknown'
DeletePoll == PollStep("delete_poll", "unknown", "idle")

(***************************************************************************)
(* sql_queries.py                                                          *)
(* A statement is modelled by what it does: its kind, the table it acts on, *)
(* the tables its FOREIGN KEY clauses reference and the tables it reads.   *)
(***************************************************************************)

Drop(t) == [kind |-> "drop", table |-> t, refs |-> {}, reads |-> {}]
Create(t, r) == [kind |-> "create", table |-> t, refs |-> r, reads |-> {}]
Copy(t) == [kind |-> "copy", table |-> t, refs |-> {}, reads |-> {}]
Insert(t, r) == [kind |-> "insert", table |-> t, refs |-> {}, reads |-> r]

staging_events_table_drop == Drop("staging_events")
staging_songs_table_drop == Drop("staging_songs")
songplay_table_drop == Drop("songplays")
user_table_drop == Drop("users")
song_table_drop == Drop("songs")
artist_table_drop == Drop("artists")
time_table_drop == Drop("time")

staging_events_table_create == Create("staging_events", {})
staging_songs_table_create == Create("staging_songs", {})
songplay_table_create == Create("songplays", {"time", "artists", "users", "songs"})
user_table_create == Create("users", {})
song_table_create == Create("songs", {"artists"})
artist_table_create == Create("artists", {})
time_table_create == Create("time", {})

staging_events_copy == Copy("staging_events")
staging_songs_copy == Copy("staging_songs")

songplay_table_insert == Insert("songplays", {"staging_events", "staging_songs"})
user_table_insert == Insert("users", {"staging_events"})
song_table_insert == Insert("songs", {"staging_songs"})
artist_table_insert == Insert("artists", {"staging_songs"})
time_table_insert == Insert("time", {"staging_events"})

create_table_queries_in_definition_order ==
    <<staging_events_table_create, staging_songs_table_create,
      songplay_table_create, user_table_create, song_table_create,
      artist_table_create, time_table_create>>

create_table_queries ==
    <<staging_events_table_create, staging_songs_table_create, user_table_create,
      artist_table_create, song_table_create, time_table_create,
      songplay_table_create>>

drop_table_queries ==
    <<staging_events_table_drop, staging_songs_table_drop, songplay_table_drop,
      user_table_drop, song_table_drop, artist_table_drop, time_table_drop>>

copy_table_queries == <<staging_events_copy, staging_songs_copy>>

insert_table_queries ==
    <<user_table_insert, artist_table_insert, song_table_insert,
      time_table_insert, songplay_table_insert>>

CreateStatements ==
    {staging_events_table_create, staging_songs_table_create,
     songplay_table_create, user_table_create, song_table_create,
     artist_table_create, time_table_create}

AllTables == {s.table : s \in CreateStatements}

\* The tables named in the REFERENCES clauses of the CREATE statement of t.
References(t) == UNION {s.refs : s \in {c \in CreateStatements : c.table = t}}

SqlLists == {"drop", "create", "copy", "insert"}

QueryList(l) ==
    CASE l = "drop" -> drop_table_queries
      [] l = "create" -> create_table_queries
      [] l = "copy" -> copy_table_queries
      [] l = "insert" -> insert_table_queries

\* The statements of the running list executed so far, in order.
Executed ==
    IF sqlList = "none" THEN <<>> ELSE SubSeq(QueryList(sqlList), 1, sqlPos)

\* Whether the SQL engine accepts the statement.
Accepts(s) ==
    CASE s.kind = "drop" ->
           \A r \in tables \ {s.table} : s.table \notin References(r)
      [] s.kind = "create" -> s.table \in tables \/ s.refs \subseteq tables
      [] s.kind = "copy" -> s.table \in tables
      [] s.kind = "insert" -> s.table \in tables /\ s.reads \subseteq tables

\* The external runner starts executing one of the lists.
RunStart(l) ==
    /\ sqlList = "none"
    /\ sqlList' = l
    /\ sqlPos' = 0
    /\ sqlFailed' = FALSE
    /\ UNCHANGED <<tables, loaded>>
    /\ UNCHANGED cliVars

\* The runner executes the next statement of the list.
RunStatement ==
    /\ sqlList # "none"
    /\ ~sqlFailed
    /\ sqlPos < Len(QueryList(sqlList))
    /\ LET s == QueryList(sqlList)[sqlPos + 1] IN
       /\ sqlPos' = sqlPos + 1
       /\ sqlFailed' = ~Accepts(s)
       /\ IF ~Accepts(s)
          THEN UNCHANGED <<tables, loaded>>
          ELSE CASE s.kind = "drop" ->
                      /\ tables' = tables \ {s.table}
                      /\ loaded' = loaded \ {s.table}
                 [] s.kind = "create" ->
                      /\ tables' = tables \cup {s.table}
                      /\ loaded' = loaded
                 [] s.kind \in {"copy", "insert"} ->
                      /\ tables' = tables
                      /\ loaded' = loaded \cup {s.table}
    /\ UNCHANGED sqlList
    /\ UNCHANGED cliVars

\* The run ends at the end of the list or at the first error.
RunEnd ==
    /\ sqlList # "none"
    /\ sqlFailed \/ sqlPos = Len(QueryList(sqlList))
    /\ sqlList' = "none"
    /\ sqlPos' = 0
    /\ sqlFailed' = FALSE
    /\ UNCHANGED <<tables, loaded>>
    /\ UNCHANGED cliVars

(***************************************************************************)
(* Specifications                                                          *)
(***************************************************************************)

Init ==
    /\ role = "absent"
    /\ attached = FALSE
    /\ pc = "idle"
    /\ opts = {}
    /\ dwhRole = Unset
    /\ status = "False"
    /\ i = 0
    /\ out = <<>>
    /\ calls = NoCalls
    /\ lastCall = NoCall
    /\ ret = NoReturn
    /\ exit = "none"
    /\ crashAt = "none"
    /\ lookup = "pending"
    /\ created = FALSE
    /\ observed = "none"
    /\ polls = 0
    /\ hit = FALSE
    /\ sqlList = "none"
    /\ sqlPos = 0
    /\ sqlFailed = FALSE
    /\ tables = {}
    /\ loaded = {}

Next ==
    \/ \E o \in SUBSET Flags : Invoke(o)
    \/ StatusQuery
    \/ GetRole
    \/ CreateRole
    \/ AttachPolicy
    \/ CreateStatus
    \/ CreateCluster
    \/ CreatePoll
    \/ DeleteStatus
    \/ DeleteCluster
    \/ DeletePoll

\* The command-line tool, invoked any number of times.
Spec == Init /\ [][Next]_vars

SqlNext ==
    \/ \E l \in SqlLists : RunStart(l)
    \/ RunStatement
    \/ RunEnd

\* The runner of the statement lists.
SpecSql == Init /\ [][SqlNext]_vars

(***************************************************************************)
(* Claims                                                                  *)
(***************************************************************************)

\* C1: an invocation that sets two of the flags create, delete, status fails
\* with a usage error and makes no external call.
C1_ExclusiveFlags ==
    \A a \in Flags : \A b \in Flags \ {a} :
        {a, b} \subseteq opts =>
            /\ exit = "usage"
            /\ pc = "idle"
            /\ \A api \in Apis : calls[api] = 0

C1_Witness == opts = {"delete", "status"} /\ exit = "usage"

\* C2 as stated: if the lookup finds the role, no create_role call; if it does
\* not, exactly one create_role call and exactly one attach_role_policy call.
C2_Original ==
    /\ lookup = "found" => calls["create_role"] = 0
    /\ (lookup = "absent" /\ pc \notin {"create_role", "attach_policy"}) =>
           /\ calls["create_role"] = 1
           /\ calls["attach_role_policy"] = 1

\* C2 amended: if the lookup finds the role, no create_role and no
\* attach_role_policy call; if it returns no role, exactly one create_role
\* call, and one attach_role_policy call if that call succeeded, none if it failed.
C2_RoleCalls ==
    /\ lookup = "found" =>
           /\ calls["create_role"] = 0
           /\ calls["attach_role_policy"] = 0
    /\ (lookup = "absent" /\ pc \notin {"create_role", "attach_policy"}) =>
           /\ calls["create_role"] = 1
           /\ calls["attach_role_policy"] = IF created THEN 1 ELSE 0

C2_Witness ==
    /\ lookup = "absent"
    /\ pc = "create_status"
    /\ created
    /\ calls["create_role"] = 1
    /\ calls["attach_role_policy"] = 1

\* C3: in the create flow create_cluster is called only when the status seen
\* just before is 'unknown'; for any other status there is no create_cluster
\* call and no polling.
C3_CreateOnlyWhenAbsent ==
    ("create" \in opts /\ exit # "usage") =>
        /\ calls["create_cluster"] > 0 => observed = "unknown"
        /\ observed \notin {"none", "unknown"} =>
               /\ calls["create_cluster"] = 0
               /\ polls = 0
               /\ calls["describe_clusters"] = 1

C3_Witness ==
    /\ "create" \in opts
    /\ observed = "unknown"
    /\ lastCall.api = "create_cluster"

\* The status a polling loop waits for.
Target == IF "create" \in opts THEN "available" ELSE "unknown"

\* C4: a polling loop makes at most 10 describe calls, goes on only while no
\* poll has returned the target and fewer than 10 polls were made, and ends
\* either on the poll that returns the target or after exactly 10 polls.
C4_PollingStops ==
    /\ polls <= 10
    /\ pc \in {"create_poll", "delete_poll"} => (~hit /\ polls < 10)
    /\ (pc = "idle" /\ exit = "ok" /\ polls > 0) =>
           \/ hit /\ status = Target
           \/ ~hit /\ polls = 10

C4_Witness == pc = "idle" /\ exit = "ok" /\ polls = 10 /\ ~hit

\* C5: in the delete flow delete_cluster is called at most once, and only when
\* the status seen just before is 'available'; for any other status there is
\* no delete_cluster call and no polling.
C5_DeleteOnlyWhenAvailable ==
    ("delete" \in opts /\ exit # "usage") =>
        /\ calls["delete_cluster"] <= 1
        /\ calls["delete_cluster"] > 0 => observed = "available"
        /\ observed \notin {"none", "available"} =>
               /\ calls["delete_cluster"] = 0
               /\ polls = 0
               /\ calls["describe_clusters"] = 1

C5_Witness ==
    /\ "delete" \in opts
    /\ observed = "available"
    /\ lastCall.api = "delete_cluster"

\* C6: get_cluster_status returns 'unknown' exactly when describe_clusters
\* reports cluster-not-found, and returns the provider's status unchanged when
\* the cluster exists.
C6_StatusQuery ==
    lastCall.api = "describe_clusters" =>
        /\ ret = "unknown" <=> lastCall.resp = "ClusterNotFoundFault"
        /\ lastCall.resp \in ProviderStatuses => ret = lastCall.resp

C6_Witness ==
    /\ lastCall.api = "describe_clusters"
    /\ lastCall.resp = "ClusterNotFoundFault"
    /\ ret = "unknown"

\* C7: whenever create_cluster is called, the role exists and the storage-read
\* policy is attached to it.
C7_RoleReadyAtCreate ==
    lastCall.api = "create_cluster" => (role = "exists" /\ attached)

\* C8 as stated: every failed external call is caught and printed, the helper
\* returns None, and the invocation does not end at the failed call.
C8_Original ==
    lastCall.resp \in Failures =>
        /\ Last(out) = Exc
        /\ ret = None
        /\ crashAt # lastCall.api

\* C8 amended: a failed get_role, create_role, attach_role_policy,
\* create_cluster or delete_cluster call is caught and printed, the helper
\* returns None and the invocation goes on; cluster-not-found from
\* describe_clusters is caught without printing and yields 'unknown'; any other
\* describe_clusters failure is not caught and ends the invocation at that call.
C8_FailureHandling ==
    /\ (lastCall.api \in Apis \ {"describe_clusters"} /\ lastCall.resp \in Failures) =>
           /\ Last(out) = Exc
           /\ ret = None
           /\ exit = "running"
    /\ (lastCall.api = "describe_clusters" /\ lastCall.resp = "ClusterNotFoundFault") =>
           /\ Exc \notin {out[k] : k \in 1..Len(out)}
           /\ ret = "unknown"
           /\ crashAt # "describe_clusters"
    /\ (lastCall.api = "describe_clusters" /\ lastCall.resp = "ClientError") =>
           /\ exit = "error"
           /\ crashAt = "describe_clusters"
           /\ pc = "idle"

C8_Witness ==
    /\ lastCall.api = "describe_clusters"
    /\ lastCall.resp = "ClientError"
    /\ exit = "error"
    /\ calls["create_role"] = 1
    /\ ~created

\* The latest step was a poll of the create flow's loop that returned a status.
CreatePolled ==
    /\ "create" \in opts
    /\ polls > 0
    /\ lastCall.api = "describe_clusters"
    /\ lastCall.resp # "ClientError"

\* C9 as stated: every status returned by a poll of the create flow is printed,
\* the one on which the loop stops included.
C9_Original == CreatePolled => Last(out) = status

\* C9 amended: every status other than 'available' returned by a poll of the
\* create flow is printed, the status of the last of the 10 polls included; the
\* 'available' status on which the loop stops is not printed.
C9_PollPrints ==
    CreatePolled =>
        IF status = "available"
        THEN out = <<"Get Redshift cluster status">>
        ELSE out = <<"Get Redshift cluster status", status>>

C9_Witness ==
    /\ CreatePolled
    /\ polls = 10
    /\ pc = "idle"
    /\ status = "creating"
    /\ Last(out) = "creating"

\* C10: in list order, every table a CREATE statement references is created by
\* an earlier statement of create_table_queries, every table that references
\* another is dropped before it in drop_table_queries, and songplays is
\* inserted into after users, artists, songs and time.
C10_ListOrder ==
    \A k \in 1..Len(Executed) :
        LET s == Executed[k]
            Before == {Executed[j].table : j \in 1..(k - 1)}
        IN  /\ s.kind = "create" => s.refs \subseteq Before
            /\ s.kind = "drop" =>
                   \A r \in AllTables : s.table \in References(r) => r \in Before
            /\ (s.kind = "insert" /\ s.table = "songplays") =>
                   {"users", "artists", "songs", "time"} \subseteq Before

C10_Witness ==
    /\ sqlList = "create"
    /\ sqlPos = Len(create_table_queries)
    /\ ~sqlFailed
    /\ "songplays" \in tables
====
